---- MODULE Spec2Model ----
(***************************************************************************)
(* PaperLoom backend: the embedding index synchronizer                     *)
(* (services/vector_store.py) and the graph expander                       *)
(* (services/graph_service.py), modelled as state machines.                *)
(*                                                                         *)
(*   SpecSync    one caller at a time: sync_project_nodes, upsert_node and *)
(*               delete_node on the shared collection.                     *)
(*   SpecRace    two requests running sync_project_nodes concurrently,     *)
(*               interleaved at the collection's calls.                    *)
(*   SpecPair    the same two requests, one call each and no third.        *)
(*   SpecExpand  get_connected_nodes on bounded inputs, run twice.         *)
(*                                                                         *)
(* and the chat turn of routers/chat.py:                                   *)
(*                                                                         *)
(*   SpecTurn    one turn from the request to its insights: merge of the   *)
(*               search results with pinned and legacy ids, expansion,     *)
(*               context assembly.                                         *)
(*   SpecCite    one turn through to the citations parsed from the         *)
(*               completion text.                                          *)
(*   SpecRetrieve one turn from its arrival to the merge: the sync of the  *)
(*               request's nodes, the search of the index, the merge.      *)
(*   SpecChat    two requests, blocking or streamed, and delete_session    *)
(*               calls on the chat store.                                  *)
(*   SpecSession the requests of one project one after the other, long     *)
(*               enough for a session to outgrow the history window.       *)
(***************************************************************************)
EXTENDS Integers, Sequences, FiniteSets, TLC

\* ------------------------------------------------------------------ bounds

\* Longest node list of a sync call in SpecSync.
MaxNodes == 2
\* Longest node list of a sync call in SpecRace and SpecPair.
MaxRaceNodes == 1
\* Longest seed list and longest edge list of an expansion.
MaxSeeds == 2
MaxEdges == 2
\* Longest pinned list of a chat turn, apart from the one list that exceeds
\* the expansion's cap.
MaxPinned == 2
\* Most pieces a completion text is put together from.
MaxFragments == 2
\* Most chat requests started, and most tokens of a streamed answer.
MaxTurns == 2
MaxTokens == 1
\* Most chat requests started when they come one after the other.
MaxSessionTurns == 4

\* ------------------------------------------------------------ value domains

\* Requests in flight.
Workers == {"w1", "w2"}
Projects == {"P", "Q"}
\* Ids of the collection. "" is what node.get("id", "") gives a node without id.
NodeIds == {"a", "b"}
NoId == ""
\* Node contents: missing/empty, whitespace only, and two texts.
Contents == {"", " ", "x", "y"}
Texts == {"x", "y"}

\* Sequences over S of length at most n.
SeqsUpTo(S, n) == UNION {[1..k -> S] : k \in 0..n}

\* The nodes of a request: both texts under both ids (so that a list can
\* repeat an id), a node of whitespace, a node of no content, a node of no id.
Node(i, c) == [id |-> i, content |-> c]
Nodes == [id : NodeIds, content : Texts]
         \cup {Node("a", " "), Node("b", ""), Node(NoId, "x")}
NodeLists == SeqsUpTo(Nodes, MaxNodes)
RaceNodeLists == SeqsUpTo({Node("a", "x"), Node("a", "y"), Node("b", "x")}, MaxRaceNodes)

\* ------------------------------------------------------------ pure helpers

\* str.strip() on the contents of the model.
Strip(content) == IF content = " " THEN "" ELSE content

\* hashlib.md5(content.encode()).hexdigest()[:16], tabulated on Contents.
ContentHash(content) ==
    CASE content = "x" -> "9dd4e461268c8034"
      [] content = "y" -> "415290769594460e"
      [] content = " " -> "7215ee9c7d9dc229"
      [] OTHER         -> "d41d8cd98f00b204"

\* dict.get(key, default) on a metadata mapping.
MetaGet(metadata, key, default) ==
    IF key \in DOMAIN metadata THEN metadata[key] ELSE default

\* The collection is a mapping id -> entry; DOMAIN is the set of present ids.
EmptyCollection == [i \in {} |-> [document |-> "", metadata |-> [project_id |-> ""]]]

\* collection.upsert(ids=[node_id], documents=[...], metadatas=[...])
CollectionUpsert(coll, node_id, entry) ==
    [i \in DOMAIN coll \cup {node_id} |-> IF i = node_id THEN entry ELSE coll[i]]

\* collection.delete(ids=[...]); ids that are not present are ignored.
CollectionDelete(coll, ids) == [i \in DOMAIN coll \ ids |-> coll[i]]

\* collection.get(where={"project_id": project_id}): the ids of the project.
CollectionGet(coll, p) == {i \in DOMAIN coll : coll[i].metadata.project_id = p}

\* upsert_node: an entry with the content and its fingerprint; empty content
\* is skipped.  (source_document and page_index are carried along by the code
\* and read by no operation of the model; they are left out.)
\* Line 68: upsert_node embeds the content unless it is empty.
Embeds(content) == ~(content = "" \/ Strip(content) = "")

upsert_node_StaleHash(coll, node_id, content, p) ==
    IF ~Embeds(content) THEN coll
    ELSE CollectionUpsert(coll, node_id,
            [document |-> content,
             metadata |-> [project_id |-> p,
                           content_hash |-> IF node_id \in DOMAIN coll
                                            THEN MetaGet(coll[node_id].metadata, "content_hash",
                                                         ContentHash(content))
                                            ELSE ContentHash(content)]])
upsert_node(coll, node_id, content, p) ==
    IF ~Embeds(content) THEN coll
    ELSE CollectionUpsert(coll, node_id,
            [document |-> content,
             metadata |-> [project_id |-> p, content_hash |-> ContentHash(content)]])

\* Entries persisted by a build that stored no content_hash in the metadata:
\* what metadata.get("content_hash", "") in sync_project_nodes provides for.
LegacyEntries == [document : {"x"}, metadata : [project_id : Projects]]
LegacyCollections == UNION {[S -> LegacyEntries] : S \in SUBSET NodeIds}

\* ------------------------------------------------------------------- state

VARIABLES
    \* the shared collection "snippets"
    index,
    \* sync_project_nodes, per request: position, arguments and locals
    pc, project_id, nodes, existing_ids, existing_hashes, current_ids,
    updated_count, pos, ret,
    \* history of the call: the collection when it started, the positions of
    \* the nodes that collection.upsert was called for, whether it repeats the call completed just
    \* before it, whether it ran with no other operation in between
    pre, written, again, alone,
    \* whether two sync calls have overlapped so far, and the collection when
    \* the calls in flight began: when one started with no other in flight
    raced, origin

syncVars == <<index, pc, project_id, nodes, existing_ids, existing_hashes,
              current_ids, updated_count, pos, ret, pre, written, again,
              alone, raced, origin>>

InitSync(collections) ==
    /\ index \in collections
    /\ pc = [w \in Workers |-> "idle"]
    /\ project_id = [w \in Workers |-> ""]
    /\ nodes = [w \in Workers |-> <<>>]
    /\ existing_ids = [w \in Workers |-> {}]
    /\ existing_hashes = [w \in Workers |-> [i \in {} |-> ""]]
    /\ current_ids = [w \in Workers |-> {}]
    /\ updated_count = [w \in Workers |-> 0]
    /\ pos = [w \in Workers |-> 1]
    /\ ret = [w \in Workers |-> 0]
    /\ pre = [w \in Workers |-> EmptyCollection]
    /\ written = [w \in Workers |-> {}]
    /\ again = [w \in Workers |-> FALSE]
    /\ alone = [w \in Workers |-> FALSE]
    /\ raced = FALSE
    /\ origin = EmptyCollection

\* Another request's step ends the solitude of every call in flight.
Disturb(w) == [v \in Workers |-> IF v = w THEN alone[v] ELSE FALSE]

\* ------------------------------------------------- sync_project_nodes steps

\* Lines 158-176: read the project's entries, build the fingerprint lookup.
ExistingHashes_NoDefault(coll, ids) ==
    [i \in ids |-> MetaGet(coll[i].metadata, "content_hash", ContentHash(coll[i].document))]
ExistingHashes(coll, ids) ==
    [i \in ids |-> MetaGet(coll[i].metadata, "content_hash", "")]

SyncEnter(w, p, N) ==
    /\ project_id' = [project_id EXCEPT ![w] = p]
    /\ nodes' = [nodes EXCEPT ![w] = N]
    /\ existing_ids' = [existing_ids EXCEPT ![w] = CollectionGet(index, p)]
    /\ existing_hashes' = [existing_hashes EXCEPT
            ![w] = ExistingHashes(index, CollectionGet(index, p))]
    /\ current_ids' = [current_ids EXCEPT ![w] = {}]
    /\ updated_count' = [updated_count EXCEPT ![w] = 0]
    /\ pos' = [pos EXCEPT ![w] = 1]
    /\ ret' = [ret EXCEPT ![w] = 0]
    /\ written' = [written EXCEPT ![w] = {}]
    /\ pre' = [pre EXCEPT ![w] = index]
    /\ raced' = (raced \/ \E u \in Workers \ {w} : pc[u] = "loop")
    /\ origin' = IF \A u \in Workers \ {w} : pc[u] = "idle" THEN index ELSE origin
    /\ pc' = [pc EXCEPT ![w] = "loop"]
    /\ UNCHANGED index

\* A request calls sync_project_nodes(p, N).
SyncStart(w, projects, lists) ==
    /\ pc[w] = "idle"
    /\ \E p \in projects, N \in lists : SyncEnter(w, p, N)
    /\ again' = [again EXCEPT ![w] = FALSE]
    /\ alone' = [v \in Workers |-> v = w /\ \A u \in Workers \ {w} : pc[u] = "idle"]

\* The call that has just returned is made again, on the same project and the
\* same node list, before anything else has touched the collection.
SyncAgain(w) ==
    /\ pc[w] = "done"
    /\ alone[w]
    /\ ~again[w]
    /\ SyncEnter(w, project_id[w], nodes[w])
    /\ again' = [again EXCEPT ![w] = TRUE]
    /\ alone' = [v \in Workers |-> v = w /\ \A u \in Workers \ {w} : pc[u] = "idle"]

\* Line 180: the nodes the synchronizer considers.
Considered_AnyContent(node) == node.id # ""
Considered(node) ==
    node.id # "" /\ node.content # "" /\ Strip(node.content) # ""

\* dict.get(node_id, "") on the fingerprint lookup.
OldHash(hashes, node_id) == IF node_id \in DOMAIN hashes THEN hashes[node_id] ELSE ""

\* Line 187: the node is new or its content changed.
Changed_Always(hashes, node) == TRUE
Changed(hashes, node) == ContentHash(node.content) # OldHash(hashes, node.id)

\* Lines 177-196: one iteration of the loop over the nodes.
SyncNode(w) ==
    /\ pc[w] = "loop"
    /\ pos[w] <= Len(nodes[w])
    /\ LET node == nodes[w][pos[w]] IN
        IF Considered(node)
        THEN /\ current_ids' = [current_ids EXCEPT ![w] = @ \cup {node.id}]
             /\ IF Changed(existing_hashes[w], node)
                THEN /\ index' = upsert_node(index, node.id, node.content, project_id[w])
                     /\ updated_count' = [updated_count EXCEPT ![w] = @ + 1]
                     /\ written' = [written EXCEPT ![w] =
                            IF Embeds(node.content) THEN @ \cup {pos[w]} ELSE @]
                ELSE UNCHANGED <<index, updated_count, written>>
        ELSE UNCHANGED <<index, current_ids, updated_count, written>>
    /\ pos' = [pos EXCEPT ![w] = @ + 1]
    /\ alone' = Disturb(w)
    /\ UNCHANGED <<pc, project_id, nodes, existing_ids, existing_hashes, ret,
                   pre, again, raced, origin>>

\* Lines 198-203: delete the entries whose ids left the list, return the count.
RemovedIds_None(existing, current) == {}
RemovedIds(existing, current) == existing \ current

SyncFinish(w) ==
    /\ pc[w] = "loop"
    /\ pos[w] > Len(nodes[w])
    /\ LET removed_ids == RemovedIds(existing_ids[w], current_ids[w]) IN
        index' = IF removed_ids # {} THEN CollectionDelete(index, removed_ids) ELSE index
    /\ ret' = [ret EXCEPT ![w] = updated_count[w]]
    /\ pc' = [pc EXCEPT ![w] = "done"]
    /\ alone' = Disturb(w)
    /\ UNCHANGED <<project_id, nodes, existing_ids, existing_hashes, current_ids,
                   updated_count, pos, pre, written, again, raced, origin>>

\* The call has returned; its frame is gone.
SyncReturn(w) ==
    /\ pc[w] = "done"
    /\ pc' = [pc EXCEPT ![w] = "idle"]
    /\ project_id' = [project_id EXCEPT ![w] = ""]
    /\ nodes' = [nodes EXCEPT ![w] = <<>>]
    /\ existing_ids' = [existing_ids EXCEPT ![w] = {}]
    /\ existing_hashes' = [existing_hashes EXCEPT ![w] = [i \in {} |-> ""]]
    /\ current_ids' = [current_ids EXCEPT ![w] = {}]
    /\ updated_count' = [updated_count EXCEPT ![w] = 0]
    /\ pos' = [pos EXCEPT ![w] = 1]
    /\ ret' = [ret EXCEPT ![w] = 0]
    /\ pre' = [pre EXCEPT ![w] = EmptyCollection]
    /\ written' = [written EXCEPT ![w] = {}]
    /\ again' = [again EXCEPT ![w] = FALSE]
    /\ alone' = [alone EXCEPT ![w] = FALSE]
    /\ origin' = IF \A u \in Workers \ {w} : pc[u] = "idle" THEN EmptyCollection ELSE origin
    /\ UNCHANGED <<index, raced>>

\* upsert_node called on its own.
UpsertNode(w) ==
    /\ pc[w] = "idle"
    /\ \E i \in NodeIds, c \in Contents, p \in Projects :
        index' = upsert_node(index, i, c, p)
    /\ alone' = Disturb(w)
    /\ UNCHANGED <<pc, project_id, nodes, existing_ids, existing_hashes,
                   current_ids, updated_count, pos, ret, pre, written, again, raced,
                   origin>>

\* delete_node called on its own.
DeleteNode(w) ==
    /\ pc[w] = "idle"
    /\ \E i \in NodeIds : index' = CollectionDelete(index, {i})
    /\ alone' = Disturb(w)
    /\ UNCHANGED <<pc, project_id, nodes, existing_ids, existing_hashes,
                   current_ids, updated_count, pos, ret, pre, written, again, raced,
                   origin>>

\* --------------------------------------------------------- graph expansion

ExpandIds == {"a", "b", "c"}
\* "" is what edge.get("source", "") gives an edge without that key.
Edge(s, t) == [source |-> s, target |-> t]
\* A chain a-b-c, a second way from a to c, and edges that lack an endpoint.
Edges == {Edge("a", "b"), Edge("b", "c"), Edge("a", "c"), Edge("a", ""), Edge("", "c")}
EdgeLists == SeqsUpTo(Edges, MaxEdges)
SeedLists == SeqsUpTo({"a", "b"}, MaxSeeds)
\* graph_depth is validated to 0..2 by the settings schema; the function
\* itself also takes a negative depth.
MaxDepth == 2
Depths == -1..MaxDepth
\* max_nodes: from no room at all to more room than there are ids.
Caps == 0..(Cardinality(ExpandIds) + 1)

Range(s) == {s[i] : i \in 1..Len(s)}
Min(x, y) == IF x <= y THEN x ELSE y
Max(x, y) == IF x >= y THEN x ELSE y

\* list[:n], Python's slice.
Slice_OneMore(list, n) == SubSeq(list, 1, Min(Len(list), n + 1))
Slice(list, n) ==
    IF n >= 0 THEN SubSeq(list, 1, Min(Len(list), n))
    ELSE SubSeq(list, 1, Max(Len(list) + n, 0))

\* list(a_set): the elements in the set's iteration order, which the language
\* leaves to the implementation (string hashing is salted per process).
ListOf(S) == {s \in [1..Cardinality(S) -> S] : \A i, j \in 1..Cardinality(S) : i # j => s[i] # s[j]}

\* Lines 28-38: the adjacency map; edges without source or target are skipped.
AdjacencyKeys(es) ==
    {es[i].source : i \in {k \in 1..Len(es) : es[k].source # "" /\ es[k].target # ""}}
    \cup {es[i].target : i \in {k \in 1..Len(es) : es[k].source # "" /\ es[k].target # ""}}
Adjacency_Directed(es) ==
    [n \in AdjacencyKeys(es) |->
        {es[i].target : i \in {k \in 1..Len(es) :
            es[k].source = n /\ es[k].target # ""}}]
Adjacency(es) ==
    [n \in AdjacencyKeys(es) |->
        {es[i].target : i \in {k \in 1..Len(es) :
            es[k].source = n /\ es[k].target # ""}}
        \cup {es[i].source : i \in {k \in 1..Len(es) :
            es[k].target = n /\ es[k].source # ""}}]

\* adjacency.get(node_id, set())
AdjacencyGet(adjacency, n) == IF n \in DOMAIN adjacency THEN adjacency[n] ELSE {}

VARIABLES
    \* get_connected_nodes: position, arguments and locals
    epc, node_ids, edges, depth, max_nodes, visited, current_level, next_level,
    level, todo, neighbors, result,
    \* history: the ids in the order they were added to visited, and the
    \* result of the previous run on the same arguments
    discovered, first

expandVars == <<epc, node_ids, edges, depth, max_nodes, visited, current_level,
                next_level, level, todo, neighbors, result, discovered, first>>

NoRun == [done |-> FALSE, value |-> <<>>]

ExpandLocalsInit ==
    /\ visited = {}
    /\ current_level = {}
    /\ next_level = {}
    /\ level = 0
    /\ todo = {}
    /\ neighbors = {}
    /\ result = <<>>
    /\ discovered = <<>>

InitExpand ==
    /\ epc = "start"
    /\ node_ids \in SeedLists
    /\ edges \in EdgeLists
    /\ depth \in Depths
    /\ max_nodes \in Caps
    /\ first = NoRun
    /\ ExpandLocalsInit

\* Line 24: no expansion asked for, or nothing to expand along.
NoExpansion_DepthOnly(d, es) == d <= 0
NoExpansion(d, es) == d <= 0 \/ Len(es) = 0

\* Lines 24-25.
ExpandEarly ==
    /\ epc = "start"
    /\ NoExpansion(depth, edges)
    /\ result' = Slice(node_ids, max_nodes)
    /\ epc' = "done"
    /\ UNCHANGED <<node_ids, edges, depth, max_nodes, visited, current_level,
                   next_level, level, todo, neighbors, discovered, first>>

\* Lines 27-42.
ExpandBuild ==
    /\ epc = "start"
    /\ ~NoExpansion(depth, edges)
    /\ visited' = Range(node_ids)
    /\ current_level' = Range(node_ids)
    /\ level' = 0
    /\ epc' = "level"
    /\ UNCHANGED <<node_ids, edges, depth, max_nodes, next_level, todo,
                   neighbors, result, discovered, first>>

\* Lines 44-45: for _ in range(depth).
LevelBegin ==
    /\ epc = "level"
    /\ IF level < depth
       THEN /\ next_level' = {}
            /\ todo' = current_level
            /\ epc' = "node"
       ELSE /\ epc' = "return"
            /\ UNCHANGED <<next_level, todo>>
    /\ UNCHANGED <<node_ids, edges, depth, max_nodes, visited, current_level,
                   level, neighbors, result, discovered, first>>

\* Lines 46-47 and 54-56: the next node of the level, in the set's order, or
\* the end of the level.
NodeNext ==
    /\ epc = "node"
    /\ IF todo = {}
       THEN /\ current_level' = next_level
            /\ level' = level + 1
            /\ epc' = IF next_level = {} THEN "return" ELSE "level"
            /\ UNCHANGED <<todo, neighbors>>
       ELSE /\ \E n \in todo :
                /\ todo' = todo \ {n}
                /\ neighbors' = AdjacencyGet(Adjacency(edges), n)
            /\ epc' = "nbr"
            /\ UNCHANGED <<current_level, level>>
    /\ UNCHANGED <<node_ids, edges, depth, max_nodes, visited, next_level,
                   result, discovered, first>>

\* Line 52: the cap is reached.
CapReached(v, cap) == Cardinality(v) >= cap

\* Lines 48-53: the next neighbor, in the set's order.
NeighborNext ==
    /\ epc = "nbr"
    /\ IF neighbors = {}
       THEN /\ epc' = "node"
            /\ UNCHANGED <<neighbors, visited, next_level, discovered>>
       ELSE \E neighbor \in neighbors :
            /\ neighbors' = neighbors \ {neighbor}
            /\ IF neighbor \notin visited
               THEN /\ visited' = visited \cup {neighbor}
                    /\ next_level' = next_level \cup {neighbor}
                    /\ discovered' = Append(discovered, neighbor)
                    /\ epc' = IF CapReached(visited \cup {neighbor}, max_nodes)
                              THEN "return" ELSE "nbr"
               ELSE /\ epc' = "nbr"
                    /\ UNCHANGED <<visited, next_level, discovered>>
    /\ UNCHANGED <<node_ids, edges, depth, max_nodes, current_level, level,
                   todo, result, first>>

\* Lines 53 and 58: list(visited)[:max_nodes].
ExpandReturn ==
    /\ epc = "return"
    /\ \E order \in ListOf(visited) : result' = Slice(order, max_nodes)
    /\ epc' = "done"
    /\ UNCHANGED <<node_ids, edges, depth, max_nodes, visited, current_level,
                   next_level, level, todo, neighbors, discovered, first>>

\* The caller runs the expansion once more on the same arguments.
ExpandAgain ==
    /\ epc = "done"
    /\ ~first.done
    /\ first' = [done |-> TRUE, value |-> result]
    /\ epc' = "start"
    /\ visited' = {}
    /\ current_level' = {}
    /\ next_level' = {}
    /\ level' = 0
    /\ todo' = {}
    /\ neighbors' = {}
    /\ result' = <<>>
    /\ discovered' = <<>>
    /\ UNCHANGED <<node_ids, edges, depth, max_nodes>>

\* ------------------------------------------------- chat turn: the context

\* Ids of canvas nodes in a chat request.
TurnIds == {"n1", "n2", "n3", "n4"}
\* context_mode, line 100.
Modes == {"auto", "manual", "hybrid"}
\* n_results of the turn's vector search and max_nodes of its expansion.
NResults == 5
ContextCap == 15

\* One result of vector_query: an id and its cosine distance, in thousandths.
Hit(i, d) == [id |-> i, distance |-> d]
\* What the search can return: ids of the collection, each at most once, the
\* nearest first, at most n_results of them.
SearchLists ==
    {s \in {<<>>, <<Hit("n1", 250)>>, <<Hit("n1", 250), Hit("n2", 600)>>,
            <<Hit("n2", 100), Hit("n1", 600)>>} : Len(s) <= NResults}
\* round(1.0 - distance, 3), in thousandths.
Similarity(d) == 1000 - d

\* A pinned list one longer than the expansion's cap.
LongList ==
    <<"m01", "m02", "m03", "m04", "m05", "m06", "m07", "m08",
      "m09", "m10", "m11", "m12", "m13", "m14", "m15", "m16">>
PinnedLists == SeqsUpTo({"n2", "n3"}, MaxPinned) \cup {LongList}
\* Legacy context ids: one the search can return too, and one it cannot.
LegacyLists == {<<>>, <<"n1">>, <<"n4">>, <<"n4", "n1">>}
\* Canvas edges of the request: none, or along the chain n1-n3-n4.
TurnEdgeLists ==
    {<<>>, <<Edge("n1", "n3")>>, <<Edge("n1", "n3"), Edge("n3", "n4")>>,
     <<Edge("n3", "n4"), Edge("n2", "n4")>>}

\* A canvas node as the request carries it. data is a dict: empty, or holding
\* a label, a string (here a sequence of characters) that may be empty.
RawNode(i, t, d) == [id |-> i, type |-> t, data |-> d]
NoData == [k \in {} |-> ""]
Labelled(l) == [label |-> l]
\* data.get("label", "")
DataLabel(data) == IF "label" \in DOMAIN data THEN data["label"] ELSE <<>>
\* Lines 126-129: node_lookup[n.get("id", "")] = n, the last node of an id wins.
NodeLookup(ns) ==
    [i \in {ns[k].id : k \in 1..Len(ns)} |->
        ns[CHOOSE k \in 1..Len(ns) :
            ns[k].id = i /\ \A j \in (k + 1)..Len(ns) : ns[j].id # i]]
\* The node lists of a request: every node with text; a list whose n2 has an
\* empty label, whose n3 has no data and which lacks n4; no nodes at all.
RawNodeLists ==
    {<<RawNode("n1", "snippetNode", Labelled(<<"x">>)), RawNode("n2", "noteNode", Labelled(<<"y", "y">>)),
       RawNode("n3", "snippetNode", Labelled(<<"x">>)), RawNode("n4", "noteNode", Labelled(<<"y", "y">>))>>,
     <<RawNode("n1", "snippetNode", Labelled(<<"x">>)), RawNode("n2", "snippetNode", Labelled(<<>>)),
       RawNode("n3", "noteNode", NoData)>>,
     <<RawNode("n2", "snippetNode", Labelled(<<>>)), RawNode("n3", "noteNode", Labelled(<<"x">>))>>,
     <<>>}

\* The merge's locals as one value.
NoMerge ==
    [retrieved_ids |-> <<>>, node_sources |-> [i \in {} |-> ""],
     node_similarities |-> [i \in {} |-> 0], rag_node_count |-> 0,
     pinned_node_count |-> 0]

\* Lines 141-153: the search results, tagged rag, with their similarities.
SearchTagged(mode, search) ==
    IF mode \in {"auto", "hybrid"}
    THEN [retrieved_ids |-> [k \in 1..Len(search) |-> search[k].id],
          node_sources |-> [i \in {search[k].id : k \in 1..Len(search)} |-> "rag"],
          node_similarities |->
              [i \in {search[k].id : k \in 1..Len(search)} |->
                  Similarity(search[CHOOSE k \in 1..Len(search) :
                      search[k].id = i /\ \A j \in (k + 1)..Len(search) : search[j].id # i].distance)],
          rag_node_count |-> Len(search),
          pinned_node_count |-> 0]
    ELSE NoMerge

\* d[key] = value on a dict
DictSet(d, key, value) ==
    [k \in DOMAIN d \cup {key} |-> IF k = key THEN value ELSE d[k]]
\* node_sources.get(node_id, default)
SourceGet(sources, i, default) == IF i \in DOMAIN sources THEN sources[i] ELSE default

\* Lines 159-167: one pinned id.
PinOne_AddOnly(m, i) ==
    IF i \notin Range(m.retrieved_ids)
    THEN [m EXCEPT !.retrieved_ids = Append(@, i),
                   !.node_sources = DictSet(@, i, "pinned"),
                   !.pinned_node_count = @ + 1]
    ELSE m
PinOne(m, i) ==
    IF i \notin Range(m.retrieved_ids)
    THEN [m EXCEPT !.retrieved_ids = Append(@, i),
                   !.node_sources = DictSet(@, i, "pinned"),
                   !.pinned_node_count = @ + 1]
    ELSE IF SourceGet(m.node_sources, i, "") = "rag"
         THEN [m EXCEPT !.node_sources = DictSet(@, i, "pinned"),
                        !.pinned_node_count = @ + 1,
                        !.rag_node_count = @ - 1]
         ELSE m

\* Lines 156-167: the pinned list, in manual and hybrid mode.
RECURSIVE PinAll(_, _)
PinAll(m, list) ==
    IF list = <<>> THEN m ELSE PinAll(PinOne(m, Head(list)), Tail(list))
PinnedMerged(m, mode, pinned) ==
    IF mode \in {"manual", "hybrid"} /\ pinned # <<>> THEN PinAll(m, pinned) ELSE m

\* Lines 172-175: one legacy context id.
LegacyOne_Append(m, i) ==
    [m EXCEPT !.retrieved_ids = Append(@, i),
              !.node_sources = DictSet(@, i, "pinned"),
              !.pinned_node_count = @ + 1]
LegacyOne(m, i) ==
    IF i \notin Range(m.retrieved_ids)
    THEN [m EXCEPT !.retrieved_ids = Append(@, i),
                   !.node_sources = DictSet(@, i, "pinned"),
                   !.pinned_node_count = @ + 1]
    ELSE m

\* Lines 170-175: the legacy context ids, in every mode.
RECURSIVE LegacyAll(_, _)
LegacyAll(m, list) ==
    IF list = <<>> THEN m ELSE LegacyAll(LegacyOne(m, Head(list)), Tail(list))

\* Lines 136-175: the merged list with its tags and counts.
Merged(mode, search, pinned, legacy) ==
    LegacyAll(PinnedMerged(SearchTagged(mode, search), mode, pinned), legacy)

\* Lines 188-192: ids of the expansion that carry no tag yet are tagged graph.
GraphTagged(sources, ids) ==
    [i \in DOMAIN sources \cup Range(ids) |-> SourceGet(sources, i, "graph")]
GraphCount(sources, ids) == Cardinality(Range(ids) \ DOMAIN sources)

\* Lines 200-206: the node is in the lookup, has data and a non-empty label.
HasData(lookup, i) == i \in DOMAIN lookup /\ DOMAIN lookup[i].data # {}
Renderable(lookup, i) == HasData(lookup, i) /\ DataLabel(lookup[i].data) # <<>>

\* The positions of the ordered list whose node is rendered, ascending.
RenderedPositions(lookup, ids) ==
    SelectSeq([k \in 1..Len(ids) |-> k], LAMBDA k : Renderable(lookup, ids[k]))

\* Lines 199-212: the context blocks, each under its position in the list.
ContextParts(lookup, ids) ==
    [k \in 1..Len(RenderedPositions(lookup, ids)) |->
        [number |-> RenderedPositions(lookup, ids)[k],
         note |-> lookup[ids[RenderedPositions(lookup, ids)[k]]].type = "noteNode",
         label |-> DataLabel(lookup[ids[RenderedPositions(lookup, ids)[k]]].data)]]

\* node_similarities.get(node_id): None when the id has no similarity.
NoSimilarity == [present |-> FALSE]
SimilarityGet(sims, i) ==
    IF i \in DOMAIN sims THEN [present |-> TRUE, value |-> sims[i]] ELSE NoSimilarity

\* Lines 215-222: the insight records of the rendered nodes.
NodeDetails(lookup, ids, sources, sims) ==
    [k \in 1..Len(RenderedPositions(lookup, ids)) |->
        [nodeId |-> ids[RenderedPositions(lookup, ids)[k]],
         source |-> SourceGet(sources, ids[RenderedPositions(lookup, ids)[k]], "unknown"),
         similarity |-> SimilarityGet(sims, ids[RenderedPositions(lookup, ids)[k]])]]

VARIABLES
    \* the request and what the search returned for it
    tpc, context_mode, search_results, pinned_node_ids, context_node_ids,
    node_lookup,
    \* chat(): locals of the context assembly
    retrieved_ids, node_sources, node_similarities, rag_node_count,
    pinned_node_count, expanded_ids, graph_expanded_count, context_parts,
    node_details, total_context_nodes,
    \* the completion text and the citations parsed from it
    response_text, citations

turnVars == <<tpc, context_mode, search_results, pinned_node_ids,
              context_node_ids, node_lookup, retrieved_ids, node_sources,
              node_similarities, rag_node_count, pinned_node_count,
              expanded_ids, graph_expanded_count, context_parts, node_details,
              total_context_nodes, response_text, citations>>

TurnLocalsInit ==
    /\ retrieved_ids = <<>>
    /\ node_sources = [i \in {} |-> ""]
    /\ node_similarities = [i \in {} |-> 0]
    /\ rag_node_count = 0
    /\ pinned_node_count = 0
    /\ expanded_ids = <<>>
    /\ graph_expanded_count = 0
    /\ context_parts = <<>>
    /\ node_details = <<>>
    /\ total_context_nodes = 0
    /\ response_text = <<>>
    /\ citations = <<>>

\* A request arrives. The list longer than the cap comes without edges: its
\* expansion is the slice of line 25, not an ordering of sixteen ids.
InitTurn ==
    /\ tpc = "merge"
    /\ context_mode \in Modes
    /\ search_results \in SearchLists
    /\ pinned_node_ids \in PinnedLists
    /\ context_node_ids \in LegacyLists
    /\ node_lookup \in {NodeLookup(ns) : ns \in RawNodeLists}
    /\ edges \in TurnEdgeLists
    /\ pinned_node_ids = LongList => edges = <<>>
    /\ depth \in 0..MaxDepth
    /\ epc = "unused"
    /\ node_ids = <<>>
    /\ max_nodes = 0
    /\ first = NoRun
    /\ ExpandLocalsInit
    /\ TurnLocalsInit

\* Lines 136-185: search, merge, and the call of get_connected_nodes.
TurnMerge ==
    /\ tpc = "merge"
    /\ retrieved_ids' = Merged(context_mode, search_results, pinned_node_ids, context_node_ids).retrieved_ids
    /\ node_sources' = Merged(context_mode, search_results, pinned_node_ids, context_node_ids).node_sources
    /\ node_similarities' = Merged(context_mode, search_results, pinned_node_ids, context_node_ids).node_similarities
    /\ rag_node_count' = Merged(context_mode, search_results, pinned_node_ids, context_node_ids).rag_node_count
    /\ pinned_node_count' = Merged(context_mode, search_results, pinned_node_ids, context_node_ids).pinned_node_count
    /\ node_ids' = retrieved_ids'
    /\ max_nodes' = ContextCap
    /\ epc' = "start"
    /\ tpc' = "expand"
    /\ UNCHANGED <<context_mode, search_results, pinned_node_ids, context_node_ids,
                   node_lookup, expanded_ids, graph_expanded_count, context_parts,
                   node_details, total_context_nodes, response_text, citations>>
    /\ UNCHANGED <<edges, depth, visited, current_level, next_level, level, todo,
                   neighbors, result, discovered, first>>

\* Lines 180-236: the expansion has returned; graph tags, context blocks,
\* insight records and the counts of the insights.
TurnAssemble ==
    /\ tpc = "expand"
    /\ epc = "done"
    /\ expanded_ids' = result
    /\ node_sources' = GraphTagged(node_sources, result)
    /\ graph_expanded_count' = GraphCount(node_sources, result)
    /\ context_parts' = ContextParts(node_lookup, result)
    /\ node_details' = NodeDetails(node_lookup, result, node_sources', node_similarities)
    /\ total_context_nodes' = Len(result)
    /\ tpc' = "assembled"
    /\ UNCHANGED <<context_mode, search_results, pinned_node_ids, context_node_ids,
                   node_lookup, retrieved_ids, node_similarities, rag_node_count,
                   pinned_node_count, response_text, citations>>
    /\ UNCHANGED expandVars

\* ------------------------------------------------ chat turn: the citations

\* The characters of a completion text that matter to the marker pattern.
DigitChars == {"0", "1", "2", "9"}
\* Pieces of completion text: markers, also with a leading zero, out of range
\* and zero; plain text; and pieces that form a marker only when put together.
Fragments ==
    {<<"[", "1", "]">>, <<"[", "0", "1", "]">>, <<"[", "2", "]">>, <<"[", "0", "]">>,
     <<"[", "9", "]">>, <<"x">>, <<"[">>, <<"1", "]">>}
RECURSIVE Concat(_)
Concat(fs) == IF fs = <<>> THEN <<>> ELSE Head(fs) \o Concat(Tail(fs))
\* What the model can answer.
ResponseTexts == {Concat(fs) : fs \in SeqsUpTo(Fragments, MaxFragments)}

\* The first position from j on that holds no digit.
RECURSIVE DigitsEnd(_, _)
DigitsEnd(text, j) ==
    IF j <= Len(text) /\ text[j] \in DigitChars THEN DigitsEnd(text, j + 1) ELSE j

\* re.findall(r'\[(\d+)\]', text): the digit strings of the matches, scanned
\* from position i, leftmost first and without overlap.
RECURSIVE FindAllFrom(_, _)
FindAllFrom(text, i) ==
    IF i > Len(text) THEN <<>>
    ELSE IF /\ text[i] = "["
            /\ DigitsEnd(text, i + 1) > i + 1
            /\ DigitsEnd(text, i + 1) <= Len(text)
            /\ text[DigitsEnd(text, i + 1)] = "]"
         THEN <<SubSeq(text, i + 1, DigitsEnd(text, i + 1) - 1)>>
                  \o FindAllFrom(text, DigitsEnd(text, i + 1) + 1)
         ELSE FindAllFrom(text, i + 1)
FindAll(text) == FindAllFrom(text, 1)

\* int(num_str)
DigitValue(c) == CASE c = "0" -> 0 [] c = "1" -> 1 [] c = "2" -> 2 [] c = "9" -> 9
RECURSIVE IntOf(_)
IntOf(digits) ==
    IF digits = <<>> THEN 0
    ELSE IntOf(SubSeq(digits, 1, Len(digits) - 1)) * 10 + DigitValue(digits[Len(digits)])

\* Line 299: 0 <= idx < len(expanded_ids).
InRange(idx, ids) == 0 <= idx /\ idx < Len(ids)
\* list[idx], Python's indexing: a negative index counts from the end.
ListAt_First(list, idx) == list[1]
ListAt(list, idx) == IF idx >= 0 THEN list[idx + 1] ELSE list[Len(list) + idx + 1]

\* Lines 298-304: the citation of one digit string, if it gives one.
\* preview is label[:100].
PreviewLen == 100
CitationOf(num_str, ids, lookup) ==
    IF InRange(IntOf(num_str) - 1, ids) /\ HasData(lookup, ListAt(ids, IntOf(num_str) - 1))
    THEN <<[nodeId |-> ListAt(ids, IntOf(num_str) - 1),
            preview |-> Slice(DataLabel(lookup[ListAt(ids, IntOf(num_str) - 1)].data), PreviewLen)]>>
    ELSE <<>>

\* Lines 297-304: the citations of the digit strings, taken in the given order.
RECURSIVE CiteAll(_, _, _)
CiteAll(order, ids, lookup) ==
    IF order = <<>> THEN <<>>
    ELSE CitationOf(Head(order), ids, lookup) \o CiteAll(Tail(order), ids, lookup)

\* A request whose context needs no search and no expansion.
InitCite ==
    /\ tpc = "merge"
    /\ context_mode \in {"manual", "hybrid"}
    /\ search_results \in {s \in SearchLists : Len(s) <= 1}
    /\ pinned_node_ids \in SeqsUpTo({"n2", "n3"}, MaxPinned)
    /\ context_node_ids = <<>>
    /\ node_lookup \in {NodeLookup(ns) : ns \in RawNodeLists}
    /\ edges = <<>>
    /\ depth = 1
    /\ epc = "unused"
    /\ node_ids = <<>>
    /\ max_nodes = 0
    /\ first = NoRun
    /\ ExpandLocalsInit
    /\ TurnLocalsInit

\* Lines 284-287 (stream: 530-532): the model has answered.
TurnComplete ==
    /\ tpc = "assembled"
    /\ response_text' \in ResponseTexts
    /\ tpc' = "complete"
    /\ UNCHANGED <<context_mode, search_results, pinned_node_ids, context_node_ids,
                   node_lookup, retrieved_ids, node_sources, node_similarities,
                   rag_node_count, pinned_node_count, expanded_ids,
                   graph_expanded_count, context_parts, node_details,
                   total_context_nodes, citations>>

\* Lines 293-304 (stream: 536-547): cited_numbers is a set of strings; the
\* loop takes them in the set's iteration order.
TurnCite ==
    /\ tpc = "complete"
    /\ \E order \in ListOf(Range(FindAll(response_text))) :
            citations' = CiteAll(order, expanded_ids, node_lookup)
    /\ tpc' = "cited"
    /\ UNCHANGED <<context_mode, search_results, pinned_node_ids, context_node_ids,
                   node_lookup, retrieved_ids, node_sources, node_similarities,
                   rag_node_count, pinned_node_count, expanded_ids,
                   graph_expanded_count, context_parts, node_details,
                   total_context_nodes, response_text>>

\* ------------------------------------------------------------- chat store

\* Optional values: None, or one value.
None == <<>>
Some(x) == <<x>>

\* The two handlers of a turn.
Paths == {"chat", "chat_stream"}
\* project_id of a request is a string; session_id is an optional integer.
ChatProjects == {"1", "P"}
SessionIds == {0, 1}
ChatRequests == [project_id : ChatProjects, session_id : {None} \cup {Some(n) : n \in SessionIds}]
\* The requests of one project that name no session or the first session
\* there is.
OwnRequests == [project_id : {"1"}, session_id : {None, Some(1)}]

\* Lines 248 and 494: int(req.project_id) if req.project_id.isdigit() else 0.
ProjectInt(p) == CASE p = "1" -> 1 [] p = "2" -> 2 [] OTHER -> 0

\* Lines 240 and 486: `if req.session_id:` holds for an id other than None
\* and 0.
Given(session_id) == session_id # None /\ session_id[1] # 0

\* A row of chat_session: the project as an integer. creator is history: the
\* project_id of the request that created the row.
SessionRow(p) == [project_id |-> ProjectInt(p), creator |-> p]

\* The id the database gives a new row of chat_session: one past the largest
\* there is (an integer primary key of SQLite).
NewId(rows) == IF DOMAIN rows = {} THEN 1 ELSE (CHOOSE n \in DOMAIN rows : \A k \in DOMAIN rows : k <= n) + 1

\* Responses of the blocking handler and events of the streaming handler.
Http(status, detail) == [status |-> status, detail |-> detail]
Event(type, message) == [type |-> type, message |-> message]
\* Line 573: the final event of a stream names the session.
Done(sid) == [type |-> "done", session_id |-> sid]
\* Lines 243 and 489.
NotFoundResponse == Http(404, "Chat session not found")
NotFoundEvent == Event("error", "Session not found")
\* Lines 290 and 577: a failure of the model or of the database.
BackendFailures == {"LLM unavailable", "database error"}
FailureResponse(e) == Http(500, e)
FailureEvent(e) == Event("error", e)

\* A row of chat_message. content stands for the text: the number of the turn
\* whose query or answer it is. project is history: the project_id of the
\* request that wrote the row.
Message(sid, role, turn, now, p) ==
    [session_id |-> sid, role |-> role, content |-> turn, created_at |-> now, project |-> p]

\* created_at is datetime.utcnow() when the row object is made (models.py:
\* 148): the wall clock at its resolution. Between two readings it has moved
\* on by a step or it has not.
Ticks == {0, 1}

\* ORDER BY created_at DESC leaves the order of rows with equal created_at to
\* the database: as they lie in the table, or the other way round.
TieOrders == {"table", "reverse"}

\* The position, among the positions at, of the row that comes first by
\* created_at descending.
Latest(rows, at, tie) ==
    CHOOSE k \in at :
        \A j \in at :
            \/ rows[j].created_at < rows[k].created_at
            \/ /\ rows[j].created_at = rows[k].created_at
               /\ IF tie = "table" THEN k <= j ELSE j <= k

\* Lines 256-262 (stream: 517-523): the rows of the session by created_at
\* descending, the first six of them, reversed.
HistoryLimit == 6
RECURSIVE Descending(_, _, _)
Descending(rows, at, tie) ==
    IF at = {} THEN <<>>
    ELSE <<rows[Latest(rows, at, tie)]>>
            \o Descending(rows, at \ {Latest(rows, at, tie)}, tie)
Reversed(s) == [k \in 1..Len(s) |-> s[Len(s) + 1 - k]]
SessionRows(rows, sid) == {k \in 1..Len(rows) : rows[k].session_id = sid}
RecentMessages(rows, sid, tie) ==
    Reversed(Slice(Descending(rows, SessionRows(rows, sid), tie), HistoryLimit))

\* Lines 264-282 (stream: 502-527): the messages for the model: the system
\* prompt, the history, the query of this turn.
Prompt(role, content) == [role |-> role, content |-> content]
SystemPrompt == Prompt("system", 0)
LlmMessages(recent, turn) ==
    <<SystemPrompt>> \o [k \in 1..Len(recent) |-> Prompt(recent[k].role, recent[k].content)]
        \o <<Prompt("user", turn)>>

VARIABLES
    \* the tables chat_session and chat_message
    sessions, chat_messages,
    \* per request: position, handler, request, the session of the turn,
    \* the HTTP response and the events sent
    cpc, path, req, chat_session, response, events,
    \* the messages handed to the model
    messages,
    \* requests started so far, the number of each request's turn, and the
    \* clock that stamps created_at
    turns, turn, clock,
    \* history: the request named a session id that was not in the table when
    \* the turn looked it up; the turn created a session; messages it appended
    named_missing, created, appended

chatVars == <<sessions, chat_messages, cpc, path, req, chat_session, response,
              events, messages, turns, turn, clock, named_missing, created,
              appended>>

NoRequest == [project_id |-> "1", session_id |-> None]

InitChat ==
    /\ sessions = [n \in {} |-> 0]
    /\ chat_messages = <<>>
    /\ cpc = [w \in Workers |-> "idle"]
    /\ path = [w \in Workers |-> "chat"]
    /\ req = [w \in Workers |-> NoRequest]
    /\ chat_session = [w \in Workers |-> None]
    /\ response = [w \in Workers |-> None]
    /\ events = [w \in Workers |-> <<>>]
    /\ messages = [w \in Workers |-> <<>>]
    /\ turns = 0
    /\ turn = [w \in Workers |-> 0]
    /\ clock = 0
    /\ named_missing = [w \in Workers |-> FALSE]
    /\ created = [w \in Workers |-> FALSE]
    /\ appended = [w \in Workers |-> 0]

\* A request arrives at chat() or chat_stream(); its context is assembled
\* (lines 99-236, 349-476) before the chat store is touched.
ChatStart(w, requests, limit) ==
    /\ cpc[w] = "idle"
    /\ turns < limit
    /\ turns' = turns + 1
    /\ turn' = [turn EXCEPT ![w] = turns + 1]
    /\ \E p \in Paths : path' = [path EXCEPT ![w] = p]
    /\ \E r \in requests : req' = [req EXCEPT ![w] = r]
    /\ cpc' = [cpc EXCEPT ![w] = "session"]
    /\ chat_session' = [chat_session EXCEPT ![w] = None]
    /\ response' = [response EXCEPT ![w] = None]
    /\ events' = [events EXCEPT ![w] = <<>>]
    /\ named_missing' = [named_missing EXCEPT ![w] = FALSE]
    /\ created' = [created EXCEPT ![w] = FALSE]
    /\ appended' = [appended EXCEPT ![w] = 0]
    /\ messages' = [messages EXCEPT ![w] = <<>>]
    /\ UNCHANGED <<sessions, chat_messages, clock>>

\* Lines 239-282 (stream: 485-527): get the session, or create one; read its
\* history and build the messages for the model.
SessionStep(w) ==
    /\ cpc[w] = "session"
    /\ named_missing' = [named_missing EXCEPT ![w] =
            req[w].session_id # None /\ req[w].session_id[1] \notin DOMAIN sessions]
    /\ \E tie \in TieOrders :
       IF Given(req[w].session_id)
       THEN IF req[w].session_id[1] \in DOMAIN sessions
            THEN /\ chat_session' = [chat_session EXCEPT ![w] = req[w].session_id]
                 /\ messages' = [messages EXCEPT ![w] =
                        LlmMessages(RecentMessages(chat_messages, req[w].session_id[1], tie), turn[w])]
                 /\ cpc' = [cpc EXCEPT ![w] = "llm"]
                 /\ UNCHANGED <<sessions, response, events, created>>
            ELSE /\ IF path[w] = "chat"
                    THEN /\ response' = [response EXCEPT ![w] = Some(NotFoundResponse)]
                         /\ UNCHANGED events
                    ELSE /\ events' = [events EXCEPT ![w] = Append(@, NotFoundEvent)]
                         /\ UNCHANGED response
                 /\ cpc' = [cpc EXCEPT ![w] = "finished"]
                 /\ UNCHANGED <<sessions, chat_session, created, messages>>
       ELSE /\ sessions' = [n \in DOMAIN sessions \cup {NewId(sessions)} |->
                                IF n \in DOMAIN sessions THEN sessions[n]
                                ELSE SessionRow(req[w].project_id)]
            /\ chat_session' = [chat_session EXCEPT ![w] = Some(NewId(sessions))]
            /\ created' = [created EXCEPT ![w] = TRUE]
            /\ messages' = [messages EXCEPT ![w] =
                    LlmMessages(RecentMessages(chat_messages, NewId(sessions), tie), turn[w])]
            /\ cpc' = [cpc EXCEPT ![w] = "llm"]
            /\ UNCHANGED <<response, events>>
    /\ UNCHANGED <<chat_messages, path, req, turns, turn, clock, appended>>

\* Line 533: the stream hands one token to the consumer.
StreamToken_UserFirst(w) ==
    /\ cpc[w] = "llm"
    /\ path[w] = "chat_stream"
    /\ Len(events[w]) < MaxTokens
    /\ events' = [events EXCEPT ![w] = Append(@, Event("token", "t"))]
    /\ chat_messages' = Append(chat_messages,
            Message(chat_session[w][1], "user", turn[w], clock + 1, req[w].project_id))
    /\ clock' = clock + 1
    /\ appended' = [appended EXCEPT ![w] = 1]
    /\ UNCHANGED <<sessions, cpc, path, req, chat_session, response, messages,
                   turns, turn, named_missing, created>>
StreamToken(w) ==
    /\ cpc[w] = "llm"
    /\ path[w] = "chat_stream"
    /\ Len(events[w]) < MaxTokens
    /\ events' = [events EXCEPT ![w] = Append(@, Event("token", "t"))]
    /\ UNCHANGED <<sessions, chat_messages, cpc, path, req, chat_session,
                   response, messages, turns, turn, clock, named_missing,
                   created, appended>>

\* Lines 285-290 (stream: 530-533, 575-577): the model fails.
LlmFails(w) ==
    /\ cpc[w] = "llm"
    /\ \E e \in BackendFailures :
        IF path[w] = "chat"
        THEN /\ response' = [response EXCEPT ![w] = Some(FailureResponse(e))]
             /\ UNCHANGED events
        ELSE /\ events' = [events EXCEPT ![w] = Append(@, FailureEvent(e))]
             /\ UNCHANGED response
    /\ cpc' = [cpc EXCEPT ![w] = "finished"]
    /\ UNCHANGED <<sessions, chat_messages, path, req, chat_session, messages,
                   turns, turn, clock, named_missing, created, appended>>

\* The two messages of a turn, in the order they are made, each stamped by
\* the clock when it is made.
TurnMessages(sid, t, asked, answered, p) ==
    <<Message(sid, "user", t, asked, p), Message(sid, "assistant", t, answered, p)>>

\* Lines 287-335: the model has answered; the blocking handler saves the two
\* messages and stamps the session row it holds. If that row was deleted in
\* the meantime the commit either fails on the stale row, writing nothing, or
\* goes through: the ORM decides, not this code.
ChatSave(w) ==
    /\ cpc[w] = "llm"
    /\ path[w] = "chat"
    /\ \/ /\ \E d1 \in Ticks, d2 \in Ticks :
                /\ chat_messages' = chat_messages
                      \o TurnMessages(chat_session[w][1], turn[w], clock + d1,
                                      clock + d1 + d2, req[w].project_id)
                /\ clock' = clock + d1 + d2
          /\ appended' = [appended EXCEPT ![w] = 2]
          /\ response' = [response EXCEPT ![w] = Some(Http(200, "ok"))]
       \/ /\ chat_session[w][1] \notin DOMAIN sessions
          /\ response' = [response EXCEPT ![w] = Some(FailureResponse("database error"))]
          /\ UNCHANGED <<chat_messages, appended, clock>>
    /\ cpc' = [cpc EXCEPT ![w] = "finished"]
    /\ UNCHANGED <<sessions, path, req, chat_session, events, messages, turns,
                   turn, named_missing, created>>

\* Lines 535-573: the stream has ended; the streaming handler saves the two
\* messages, stamps the session if it still exists, and sends done.
StreamSave_DoneOnly(w) ==
    /\ cpc[w] = "llm"
    /\ path[w] = "chat_stream"
    /\ events' = [events EXCEPT ![w] = Append(@, Done(chat_session[w][1]))]
    /\ cpc' = [cpc EXCEPT ![w] = "finished"]
    /\ UNCHANGED <<sessions, chat_messages, clock, appended, path, req,
                   chat_session, response, messages, turns, turn,
                   named_missing, created>>
StreamSave(w) ==
    /\ cpc[w] = "llm"
    /\ path[w] = "chat_stream"
    /\ \E d1 \in Ticks, d2 \in Ticks :
        /\ chat_messages' = chat_messages
              \o TurnMessages(chat_session[w][1], turn[w], clock + d1,
                              clock + d1 + d2, req[w].project_id)
        /\ clock' = clock + d1 + d2
    /\ appended' = [appended EXCEPT ![w] = 2]
    /\ events' = [events EXCEPT ![w] = Append(@, Done(chat_session[w][1]))]
    /\ cpc' = [cpc EXCEPT ![w] = "finished"]
    /\ UNCHANGED <<sessions, path, req, chat_session, response, messages, turns,
                   turn, named_missing, created>>

\* The consumer of the stream stops pulling: the generator is closed where it
\* is suspended, at a token it has yielded or while it awaits the model
\* (lines 531-533). Nothing after that point runs.
StreamCancel(w) ==
    /\ cpc[w] = "llm"
    /\ path[w] = "chat_stream"
    /\ cpc' = [cpc EXCEPT ![w] = "cancelled"]
    /\ UNCHANGED <<sessions, chat_messages, path, req, chat_session, response,
                   events, messages, turns, turn, clock, named_missing, created,
                   appended>>

\* The handler has returned, or its generator is closed: its locals are
\* gone, and the next request can come.
ChatNext(w) ==
    /\ cpc[w] \in {"finished", "cancelled"}
    /\ cpc' = [cpc EXCEPT ![w] = "idle"]
    /\ path' = [path EXCEPT ![w] = "chat"]
    /\ req' = [req EXCEPT ![w] = NoRequest]
    /\ chat_session' = [chat_session EXCEPT ![w] = None]
    /\ response' = [response EXCEPT ![w] = None]
    /\ events' = [events EXCEPT ![w] = <<>>]
    /\ messages' = [messages EXCEPT ![w] = <<>>]
    /\ turn' = [turn EXCEPT ![w] = 0]
    /\ named_missing' = [named_missing EXCEPT ![w] = FALSE]
    /\ created' = [created EXCEPT ![w] = FALSE]
    /\ appended' = [appended EXCEPT ![w] = 0]
    /\ UNCHANGED <<sessions, chat_messages, turns, clock>>

\* Lines 645-661: delete_session removes the session's messages and the
\* session in one transaction.
DeleteSession(sid) ==
    /\ sid \in DOMAIN sessions
    /\ chat_messages' = SelectSeq(chat_messages, LAMBDA msg : msg.session_id # sid)
    /\ sessions' = [n \in DOMAIN sessions \ {sid} |-> sessions[n]]
    /\ UNCHANGED <<cpc, path, req, chat_session, response, events, messages,
                   turns, turn, clock, named_missing, created, appended>>

\* ------------------------------------- chat turn: synchronize and retrieve

\* The project of the request whose retrieval is followed.
RequestProject == "P"

\* The node lists a request can carry: none (absent or empty: `if req.nodes`
\* takes both the same way), snippets and notes with text, a node of another
\* type, a node of whitespace, a node without label.
RequestNodeLists ==
    {<<>>,
     <<RawNode("a", "snippetNode", Labelled("x"))>>,
     <<RawNode("b", "noteNode", Labelled("y"))>>,
     <<RawNode("a", "snippetNode", Labelled("y")), RawNode("b", "noteNode", Labelled("x"))>>,
     <<RawNode("a", "groupNode", Labelled("x")), RawNode("b", "snippetNode", Labelled(" "))>>,
     <<RawNode("b", "noteNode", NoData)>>}

\* n.get("data", {}).get("label", "")
LabelText(data) == IF "label" \in DOMAIN data THEN data["label"] ELSE ""

\* Lines 103-122: the snippets and notes of the request, as the synchronizer
\* takes them.
NodeData(ns) ==
    [k \in 1..Len(SelectSeq(ns, LAMBDA n : n.type \in {"snippetNode", "noteNode"})) |->
        Node(SelectSeq(ns, LAMBDA n : n.type \in {"snippetNode", "noteNode"})[k].id,
             LabelText(SelectSeq(ns, LAMBDA n : n.type \in {"snippetNode", "noteNode"})[k].data))]

\* vector_store.query: the entries of the project, the nearest first, at most
\* n_results of them. Which entry is nearer is the embedding's matter: every
\* order is possible. The k-th hit of the model is at distance 100 * k.
VectorQuery(coll, p, n) ==
    {[k \in 1..Len(Slice(s, n)) |-> Hit(Slice(s, n)[k], 100 * k)] : s \in ListOf(CollectionGet(coll, p))}

\* Lines 102-129: the request arrives; if it carries nodes, the synchronizer
\* is called with them; the lookup of the request's nodes is built.
TurnRequest ==
    /\ tpc = "request"
    /\ \E ns \in RequestNodeLists :
        /\ node_lookup' = NodeLookup(ns)
        /\ IF ns # <<>>
           THEN /\ SyncEnter("w1", RequestProject, NodeData(ns))
                /\ again' = [again EXCEPT !["w1"] = FALSE]
                /\ alone' = [v \in Workers |-> v = "w1"]
                /\ tpc' = "sync"
           ELSE /\ tpc' = "search"
                /\ UNCHANGED syncVars
    /\ UNCHANGED <<context_mode, search_results, pinned_node_ids, context_node_ids,
                   retrieved_ids, node_sources, node_similarities, rag_node_count,
                   pinned_node_count, expanded_ids, graph_expanded_count,
                   context_parts, node_details, total_context_nodes,
                   response_text, citations>>

\* Lines 141-147: in the modes auto and hybrid the index is searched.
TurnSearch ==
    /\ \/ tpc = "search"
       \/ tpc = "sync" /\ pc["w1"] = "done"
    /\ IF context_mode \in {"auto", "hybrid"}
       THEN search_results' \in VectorQuery(index, RequestProject, NResults)
       ELSE search_results' = <<>>
    /\ tpc' = "merge"
    /\ UNCHANGED <<context_mode, pinned_node_ids, context_node_ids, node_lookup,
                   retrieved_ids, node_sources, node_similarities, rag_node_count,
                   pinned_node_count, expanded_ids, graph_expanded_count,
                   context_parts, node_details, total_context_nodes,
                   response_text, citations>>

InitRetrieve ==
    /\ tpc = "request"
    /\ context_mode \in Modes
    /\ search_results = <<>>
    /\ pinned_node_ids = <<>>
    /\ context_node_ids = <<>>
    /\ node_lookup = NodeLookup(<<>>)
    /\ TurnLocalsInit

\* ---------------------------------------------------------- specifications

vars == <<syncVars, expandVars, turnVars, chatVars>>

\* The frames of the specifications.
exceptSync == <<expandVars, turnVars, chatVars>>
exceptExpand == <<syncVars, turnVars, chatVars>>
exceptTurn == <<syncVars, chatVars>>
exceptChat == <<syncVars, expandVars, turnVars>>

\* The part of the state a specification does not use stays as constructed.
SyncUnused ==
    /\ index = EmptyCollection
    /\ pc = [w \in Workers |-> "idle"]
    /\ project_id = [w \in Workers |-> ""]
    /\ nodes = [w \in Workers |-> <<>>]
    /\ existing_ids = [w \in Workers |-> {}]
    /\ existing_hashes = [w \in Workers |-> [i \in {} |-> ""]]
    /\ current_ids = [w \in Workers |-> {}]
    /\ updated_count = [w \in Workers |-> 0]
    /\ pos = [w \in Workers |-> 1]
    /\ ret = [w \in Workers |-> 0]
    /\ pre = [w \in Workers |-> EmptyCollection]
    /\ written = [w \in Workers |-> {}]
    /\ again = [w \in Workers |-> FALSE]
    /\ alone = [w \in Workers |-> FALSE]
    /\ raced = FALSE
    /\ origin = EmptyCollection

ExpandUnused ==
    /\ epc = "unused"
    /\ node_ids = <<>>
    /\ edges = <<>>
    /\ depth = 0
    /\ max_nodes = 0
    /\ first = NoRun
    /\ ExpandLocalsInit

TurnUnused ==
    /\ tpc = "unused"
    /\ context_mode = "auto"
    /\ search_results = <<>>
    /\ pinned_node_ids = <<>>
    /\ context_node_ids = <<>>
    /\ node_lookup = NodeLookup(<<>>)
    /\ TurnLocalsInit

\* One caller at a time.
NextSync ==
    \/ SyncStart("w1", Projects, NodeLists) /\ UNCHANGED exceptSync
    \/ SyncNode("w1") /\ UNCHANGED exceptSync
    \/ SyncFinish("w1") /\ UNCHANGED exceptSync
    \/ SyncReturn("w1") /\ UNCHANGED exceptSync
    \/ SyncAgain("w1") /\ UNCHANGED exceptSync
    \/ UpsertNode("w1") /\ UNCHANGED exceptSync
    \/ DeleteNode("w1") /\ UNCHANGED exceptSync

InitSpecSync == InitSync(LegacyCollections) /\ ExpandUnused /\ TurnUnused /\ InitChat
SpecSync == InitSpecSync /\ [][NextSync]_vars

\* Two requests of one project, each syncing the node list it carries.
RaceCollections == {c \in LegacyCollections : \A i \in DOMAIN c : c[i].metadata.project_id = "P"}

NextRace ==
    \/ \E w \in Workers : SyncStart(w, {"P"}, RaceNodeLists) /\ UNCHANGED exceptSync
    \/ \E w \in Workers : SyncNode(w) /\ UNCHANGED exceptSync
    \/ \E w \in Workers : SyncFinish(w) /\ UNCHANGED exceptSync
    \/ \E w \in Workers : SyncReturn(w) /\ UNCHANGED exceptSync

InitSpecRace == InitSync(RaceCollections) /\ ExpandUnused /\ TurnUnused /\ InitChat
SpecRace == InitSpecRace /\ [][NextRace]_vars

\* Two requests of one project and no third: each makes its one call.
NextPair ==
    \/ \E w \in Workers : SyncStart(w, {"P"}, RaceNodeLists) /\ UNCHANGED exceptSync
    \/ \E w \in Workers : SyncNode(w) /\ UNCHANGED exceptSync
    \/ \E w \in Workers : SyncFinish(w) /\ UNCHANGED exceptSync

InitSpecPair == InitSync(RaceCollections) /\ ExpandUnused /\ TurnUnused /\ InitChat
SpecPair == InitSpecPair /\ [][NextPair]_vars

NextExpand ==
    \/ ExpandEarly /\ UNCHANGED exceptExpand
    \/ ExpandBuild /\ UNCHANGED exceptExpand
    \/ LevelBegin /\ UNCHANGED exceptExpand
    \/ NodeNext /\ UNCHANGED exceptExpand
    \/ NeighborNext /\ UNCHANGED exceptExpand
    \/ ExpandReturn /\ UNCHANGED exceptExpand
    \/ ExpandAgain /\ UNCHANGED exceptExpand

InitSpecExpand == InitExpand /\ SyncUnused /\ TurnUnused /\ InitChat
SpecExpand == InitSpecExpand /\ [][NextExpand]_vars

\* One chat turn up to its insights: merge, expansion, assembly.
NextTurn ==
    \/ TurnMerge /\ UNCHANGED exceptTurn
    \/ ExpandEarly /\ UNCHANGED exceptExpand
    \/ ExpandBuild /\ UNCHANGED exceptExpand
    \/ LevelBegin /\ UNCHANGED exceptExpand
    \/ NodeNext /\ UNCHANGED exceptExpand
    \/ NeighborNext /\ UNCHANGED exceptExpand
    \/ ExpandReturn /\ UNCHANGED exceptExpand
    \/ TurnAssemble /\ UNCHANGED exceptTurn

InitSpecTurn == InitTurn /\ SyncUnused /\ InitChat
SpecTurn == InitSpecTurn /\ [][NextTurn]_vars

\* One chat turn from the request to its citations, on requests that need
\* no search and no expansion. The chat store's part of the turn is in
\* SpecChat.
NextCite ==
    \/ TurnMerge /\ UNCHANGED exceptTurn
    \/ ExpandEarly /\ UNCHANGED exceptExpand
    \/ TurnAssemble /\ UNCHANGED exceptTurn
    \/ TurnComplete /\ UNCHANGED <<syncVars, expandVars, chatVars>>
    \/ TurnCite /\ UNCHANGED <<syncVars, expandVars, chatVars>>

InitSpecCite == InitCite /\ SyncUnused /\ InitChat
SpecCite == InitSpecCite /\ [][NextCite]_vars

\* Requests of both handlers and delete_session calls on the chat store.
NextChat ==
    \/ \E w \in Workers : ChatStart(w, ChatRequests, MaxTurns) /\ UNCHANGED exceptChat
    \/ \E w \in Workers : SessionStep(w) /\ UNCHANGED exceptChat
    \/ \E w \in Workers : StreamToken(w) /\ UNCHANGED exceptChat
    \/ \E w \in Workers : LlmFails(w) /\ UNCHANGED exceptChat
    \/ \E w \in Workers : ChatSave(w) /\ UNCHANGED exceptChat
    \/ \E w \in Workers : StreamSave(w) /\ UNCHANGED exceptChat
    \/ \E w \in Workers : StreamCancel(w) /\ UNCHANGED exceptChat
    \/ \E sid \in SessionIds : DeleteSession(sid) /\ UNCHANGED exceptChat

InitSpecChat == InitChat /\ SyncUnused /\ ExpandUnused /\ TurnUnused
SpecChat == InitSpecChat /\ [][NextChat]_vars

\* One request from its arrival to the merge: synchronize, search, merge.
NextRetrieve ==
    \/ TurnRequest /\ UNCHANGED <<expandVars, chatVars>>
    \/ SyncNode("w1") /\ UNCHANGED exceptSync
    \/ SyncFinish("w1") /\ UNCHANGED exceptSync
    \/ TurnSearch /\ UNCHANGED <<syncVars, expandVars, chatVars>>
    \/ TurnMerge /\ UNCHANGED exceptTurn

InitSpecRetrieve == InitSync(LegacyCollections) /\ ExpandUnused /\ InitRetrieve /\ InitChat
SpecRetrieve == InitSpecRetrieve /\ [][NextRetrieve]_vars

\* The requests of one project, one after the other, and delete_session
\* calls between their steps.
NextSession ==
    \/ ChatStart("w1", OwnRequests, MaxSessionTurns) /\ UNCHANGED exceptChat
    \/ SessionStep("w1") /\ UNCHANGED exceptChat
    \/ StreamToken("w1") /\ UNCHANGED exceptChat
    \/ LlmFails("w1") /\ UNCHANGED exceptChat
    \/ ChatSave("w1") /\ UNCHANGED exceptChat
    \/ StreamSave("w1") /\ UNCHANGED exceptChat
    \/ StreamCancel("w1") /\ UNCHANGED exceptChat
    \/ ChatNext("w1") /\ UNCHANGED exceptChat
    \/ \E sid \in SessionIds : DeleteSession(sid) /\ UNCHANGED exceptChat

InitSpecSession == InitChat /\ SyncUnused /\ ExpandUnused /\ TurnUnused
SpecSession == InitSpecSession /\ [][NextSession]_vars

\* ------------------------------------------------- claims: the synchronizer

\* Content that is neither empty nor whitespace only.
NonBlank(content) == content \notin {"", " "}

\* The positions of N that carry an id and non-blank content, and their ids.
\* A node without id ("" from node.get("id", "")) names no entry.
IndexablePositions(N) == {k \in 1..Len(N) : N[k].id # NoId /\ NonBlank(N[k].content)}
IndexableIds(N) == {N[k].id : k \in IndexablePositions(N)}

\* The fingerprints of the contents that N gives for id i.
FingerprintsIn(N, i) == {ContentHash(N[k].content) : k \in {j \in IndexablePositions(N) : N[j].id = i}}

\* Entry e carries the fingerprint h in readable form.
HasFingerprint(e, h) ==
    "content_hash" \in DOMAIN e.metadata /\ e.metadata.content_hash = h

\* Request w's call has returned and nothing else ran since it started.
RanAlone(w) == pc[w] = "done" /\ alone[w]

\* No id of N carries two different non-blank contents.
OneContentPerId(N) ==
    \A j, k \in IndexablePositions(N) : N[j].id = N[k].id => N[j].content = N[k].content

\* C1 as stated: whenever sync(P, N) is called twice in a row with no other
\* index operation in between, the second call performs zero upserts and
\* returns 0, for any node list N.
C1_SecondSyncWritesNothing ==
    \A w \in Workers :
        (RanAlone(w) /\ again[w]) => (written[w] = {} /\ ret[w] = 0)

\* C1 amended: the same, for every node list N in which no id carries two
\* different non-empty contents.
C1_SecondSyncWritesNothing_OneContentPerId ==
    \A w \in Workers :
        (RanAlone(w) /\ again[w] /\ OneContentPerId(nodes[w]))
            => (written[w] = {} /\ ret[w] = 0)

\* The second of two calls in a row has returned, on a list of two indexable
\* nodes with different ids.
C1_Witness ==
    \E w \in Workers :
        /\ RanAlone(w) /\ again[w]
        /\ OneContentPerId(nodes[w])
        /\ Cardinality(IndexableIds(nodes[w])) = 2
        /\ DOMAIN index = IndexableIds(nodes[w])

\* C2: after sync(P, N) has run alone to completion, the entries of project P
\* are exactly the ids of N with non-blank content, and every id that was
\* indexed for P before the call and is not among them is gone.
C2_ProjectEntriesAreTheNodeIds ==
    \A w \in Workers :
        RanAlone(w) =>
            /\ CollectionGet(index, project_id[w]) = IndexableIds(nodes[w])
            /\ \A i \in CollectionGet(pre[w], project_id[w]) \ IndexableIds(nodes[w]) :
                    i \notin DOMAIN index

\* A call has returned that added an id to the project and deleted another.
C2_Witness ==
    \E w \in Workers :
        /\ RanAlone(w)
        /\ CollectionGet(pre[w], project_id[w]) \ IndexableIds(nodes[w]) # {}
        /\ IndexableIds(nodes[w]) \ DOMAIN pre[w] # {}
        /\ CollectionGet(index, project_id[w]) # {}

\* C3: in every reachable state, under any sequence of sync and upsert
\* operations, each present entry's stored content_hash is the fingerprint of
\* the content stored with it.
C3_StoredHashIsHashOfContent ==
    \A i \in DOMAIN index :
        "content_hash" \in DOMAIN index[i].metadata
            => index[i].metadata.content_hash = ContentHash(index[i].document)

\* An entry that carried the fingerprint of one text has been re-embedded from
\* another text by a sync.
C3_Witness ==
    \E w \in Workers, i \in DOMAIN index :
        /\ pc[w] = "done"
        /\ i \in DOMAIN pre[w]
        /\ "content_hash" \in DOMAIN pre[w][i].metadata
        /\ "content_hash" \in DOMAIN index[i].metadata
        /\ pre[w][i].document # index[i].document

\* C4: sync(P, N) writes an entry only for a node of N whose id had no entry
\* in project P or whose stored fingerprint differs from the fingerprint of the
\* node's content; the value returned is the number of writes of the call.
C4_WritesOnlyNewOrChanged ==
    \A w \in Workers :
        RanAlone(w) =>
            /\ \A k \in written[w] :
                    \/ nodes[w][k].id \notin CollectionGet(pre[w], project_id[w])
                    \/ ~HasFingerprint(pre[w][nodes[w][k].id], ContentHash(nodes[w][k].content))
            /\ ret[w] = Cardinality(written[w])

\* A call has returned that rewrote one of two indexable nodes and left the
\* other, whose fingerprint was unchanged, alone.
C4_Witness ==
    \E w \in Workers :
        /\ RanAlone(w)
        /\ Cardinality(IndexablePositions(nodes[w])) = 2
        /\ Cardinality(written[w]) = 1
        /\ ret[w] = 1

\* The entries of project p in coll that carry no content_hash and whose id
\* N gives with non-blank content.
LegacyIdsIn(coll, p, N) ==
    {i \in CollectionGet(coll, p) \cap IndexableIds(N) :
        "content_hash" \notin DOMAIN coll[i].metadata}

\* C5: an entry of project P without readable content_hash is treated as
\* changed: the next sync(P, N) whose list has that id with non-blank content
\* re-embeds it and counts it, and afterwards the entry carries the
\* fingerprint of the current content.
C5_MissingHashForcesReembedding ==
    \A w \in Workers :
        RanAlone(w) =>
            \A i \in LegacyIdsIn(pre[w], project_id[w], nodes[w]) :
                /\ \A k \in IndexablePositions(nodes[w]) : nodes[w][k].id = i => k \in written[w]
                /\ ret[w] >= 1
                /\ i \in DOMAIN index
                /\ \E h \in FingerprintsIn(nodes[w], i) : HasFingerprint(index[i], h)
                /\ HasFingerprint(index[i], ContentHash(index[i].document))

\* A call has returned whose list gave, for an entry without content_hash,
\* the very text the entry was stored with.
C5_Witness ==
    \E w \in Workers :
        /\ RanAlone(w)
        /\ \E i \in LegacyIdsIn(pre[w], project_id[w], nodes[w]) :
                /\ i \in DOMAIN index
                /\ index[i].document = pre[w][i].document

\* C6: after concurrent sync calls of one project have interleaved and all
\* completed, one further sync(P, N) running alone leaves the entries of P
\* exactly the non-blank ids of N, each with the fingerprint of its content
\* in N.
C6_ConvergesAfterRace ==
    \A w \in Workers :
        (raced /\ RanAlone(w)) =>
            /\ CollectionGet(index, project_id[w]) = IndexableIds(nodes[w])
            /\ \A i \in IndexableIds(nodes[w]) :
                    \E h \in FingerprintsIn(nodes[w], i) : HasFingerprint(index[i], h)

\* After a race, a sync that ran alone has returned and had both to write and
\* to delete.
C6_Witness ==
    \E w \in Workers :
        /\ raced /\ RanAlone(w)
        /\ written[w] # {}
        /\ DOMAIN pre[w] \ DOMAIN index # {}

\* ---------------------------------------------------- claims: the expander

NoDuplicates(list) == \A i, j \in 1..Len(list) : i # j => list[i] # list[j]

\* The graph of the edge list: an edge links its two endpoints, in both
\* directions; an edge that lacks an endpoint links nothing.
Linked(es, m, n) ==
    \E k \in 1..Len(es) :
        /\ es[k].source # "" /\ es[k].target # ""
        /\ \/ es[k].source = m /\ es[k].target = n
           \/ es[k].source = n /\ es[k].target = m

\* The ids at hop distance at most d from some id of S.
RECURSIVE Within(_, _, _)
Within(es, S, d) ==
    IF d <= 0 THEN S
    ELSE LET near == Within(es, S, d - 1)
         IN  near \cup {n \in ExpandIds : \E m \in near : Linked(es, m, n)}

\* The hop distance of n from S, for an id within reach.
Distance(es, S, n) ==
    CHOOSE d \in 0..Cardinality(ExpandIds) :
        /\ n \in Within(es, S, d)
        /\ \A e \in 0..(d - 1) : n \notin Within(es, S, e)

Returned == epc = "done"

\* C7: with depth <= 0, or with an empty edge list, the result is exactly the
\* seed list in its input order, cut to its first max_nodes elements.
C7_NoExpansionReturnsSeeds ==
    (Returned /\ (depth <= 0 \/ Len(edges) = 0)) =>
        /\ Len(result) = Min(Len(node_ids), max_nodes)
        /\ \A i \in 1..Len(result) : result[i] = node_ids[i]

\* Depth 0 with edges that would lead further, and more seeds than max_nodes.
C7_Witness ==
    /\ Returned
    /\ depth = 0
    /\ Len(edges) = 2
    /\ max_nodes = 1
    /\ Len(node_ids) = 2
    /\ \E n \in ExpandIds \ Range(node_ids) : Linked(edges, node_ids[1], n)
    /\ Len(result) = 1

\* C8 as stated: for every input, the result contains no id twice and has at
\* most max_nodes elements.
C8_NoDuplicatesWithinCap ==
    Returned => (NoDuplicates(result) /\ Len(result) <= max_nodes)

\* C8 amended: the same, for every input whose seed list names no id twice
\* or that calls for expansion (depth >= 1 and a non-empty edge list).
C8_NoDuplicatesWithinCap_DistinctSeeds ==
    (Returned /\ (NoDuplicates(node_ids) \/ (depth >= 1 /\ Len(edges) > 0))) =>
        (NoDuplicates(result) /\ Len(result) <= max_nodes)

\* An expansion from a seed list that repeats an id has stopped at the cap in
\* the middle of a level.
C8_Witness ==
    /\ Returned
    /\ ~NoDuplicates(node_ids)
    /\ discovered # <<>>
    /\ Len(result) = max_nodes
    /\ \E n \in ExpandIds \ visited : n \in Within(edges, Range(node_ids), 1)

\* C9: when the cap is not reached, expansion with depth d >= 1 returns
\* exactly the ids at hop distance at most d from some seed, seeds included;
\* and ids at distance k are discovered before any at distance k + 1.
C9_ReturnsIdsWithinDepth ==
    /\ (Returned /\ depth >= 1 /\ Len(result) < max_nodes) =>
            Range(result) = Within(edges, Range(node_ids), depth)
    /\ \A i, j \in 1..Len(discovered) :
            i < j => Distance(edges, Range(node_ids), discovered[i])
                        <= Distance(edges, Range(node_ids), discovered[j])

\* seeds [a], edges (a,b),(b,c): {a,b} at depth 1 and {a,b,c} at depth 2.
C9_Witness ==
    /\ Returned
    /\ first.done
    /\ node_ids = <<"a">>
    /\ edges = <<Edge("a", "b"), Edge("b", "c")>>
    /\ depth = 2
    /\ Range(result) = {"a", "b", "c"}
    /\ discovered = <<"b", "c">>
    /\ Within(edges, Range(node_ids), 1) = {"a", "b"}

\* C10: two runs on identical inputs return the same list, also when the cap
\* truncates.
C10_SameInputsSameList ==
    (Returned /\ first.done) => result = first.value

\* ------------------------------------------- claims: the context of a turn

\* The merge of the turn is done; the turn's insights are built.
MergeDone == tpc \in {"expand", "assembled"}
Assembled == tpc = "assembled"
\* The merged ids that carry the tag.
TaggedIn(ids, sources, tag) == {i \in Range(ids) : SourceGet(sources, i, "") = tag}
SearchIds == [k \in 1..Len(search_results) |-> search_results[k].id]

\* C11: in mode manual or hybrid every id of the pinned list is in the merged
\* list tagged pinned (appended if new, retagged if the search had tagged it
\* rag), and after the merge rag_count and pinned_count are the numbers of
\* merged ids tagged rag and tagged pinned.
C11_PinnedIdsEndPinned ==
    (MergeDone /\ context_mode \in {"manual", "hybrid"}) =>
        /\ \A i \in Range(pinned_node_ids) :
                i \in Range(retrieved_ids) /\ SourceGet(node_sources, i, "") = "pinned"
        /\ rag_node_count = Cardinality(TaggedIn(retrieved_ids, node_sources, "rag"))
        /\ pinned_node_count = Cardinality(TaggedIn(retrieved_ids, node_sources, "pinned"))

\* Hybrid mode, search [n1, n2], pinned [n2, n3]: n1 rag, n2 and n3 pinned,
\* rag_count 1, pinned_count 2.
C11_Witness ==
    /\ tpc = "expand"
    /\ context_mode = "hybrid"
    /\ SearchIds = <<"n1", "n2">>
    /\ pinned_node_ids = <<"n2", "n3">>
    /\ context_node_ids = <<>>
    /\ retrieved_ids = <<"n1", "n2", "n3">>
    /\ node_sources = [n1 |-> "rag", n2 |-> "pinned", n3 |-> "pinned"]
    /\ rag_node_count = 1
    /\ pinned_node_count = 2

\* C12: the insights of every turn satisfy
\* rag_count + pinned_count + graph_count = total_context_nodes.
C12_CountsAddUp ==
    Assembled =>
        rag_node_count + pinned_node_count + graph_expanded_count = total_context_nodes

\* C13: every id of the legacy context-id list ends in the merged list tagged
\* pinned: appended if new, retagged (with its count moved) if the search had
\* tagged it rag.
C13_LegacyIdsEndPinned ==
    MergeDone =>
        \A i \in Range(context_node_ids) :
            i \in Range(retrieved_ids) /\ SourceGet(node_sources, i, "") = "pinned"

\* C14: the final ordered id list of a turn has no id twice and at most 15
\* ids.
C14_FinalListDistinctWithinCap ==
    Assembled => (NoDuplicates(expanded_ids) /\ Len(expanded_ids) <= ContextCap)

\* A turn whose merged list of rag, pinned and legacy ids is longer than the
\* cap.
C14_Witness ==
    /\ Assembled
    /\ Len(retrieved_ids) > ContextCap
    /\ Len(expanded_ids) = ContextCap
    /\ rag_node_count > 0
    /\ Range(context_node_ids) \ Range(SearchIds) # {}

\* C15: the final ordered list is the merged list in merge order followed by
\* the graph-discovered ids in their discovery order. Stated for the turns
\* whose ids all fit under the cap.
C15_MergeOrderThenDiscoveryOrder ==
    (Assembled /\ Len(retrieved_ids) + Len(discovered) <= ContextCap) =>
        expanded_ids = retrieved_ids \o discovered

\* C19: an insight record carries a similarity only if its source tag is rag.
C19_SimilarityOnlyOnRag ==
    Assembled =>
        \A k \in 1..Len(node_details) :
            node_details[k].similarity.present => node_details[k].source = "rag"

\* ----------------------------------------- claims: the citations of a turn

Cited == tpc = "cited"
\* The numbers n of the markers [n] that occur in the text: an opening
\* bracket, one or more digits, a closing bracket.
MarkerNumbers(text) ==
    {IntOf(SubSeq(text, i + 1, j - 1)) :
        <<i, j>> \in {ij \in (1..Len(text)) \X (1..Len(text)) :
            /\ ij[1] + 1 < ij[2]
            /\ text[ij[1]] = "["
            /\ text[ij[2]] = "]"
            /\ \A k \in (ij[1] + 1)..(ij[2] - 1) : text[k] \in DigitChars}}

\* C16: each citation's node id is ordered_ids[n-1] for a marker [n] of the
\* text with 1 <= n <= len(ordered_ids); markers outside that range give no
\* citation, so every cited id is in the turn's context-node list.
C16_CitationsPointIntoTheList ==
    Cited =>
        \A k \in 1..Len(citations) :
            /\ \E n \in MarkerNumbers(response_text) :
                /\ 1 <= n
                /\ n <= Len(expanded_ids)
                /\ citations[k].nodeId = expanded_ids[n]
            /\ citations[k].nodeId \in Range(expanded_ids)

\* A text with a marker in range and a marker out of range ([0], or past
\* the end of the list) has given the one citation of the marker in range.
C16_Witness ==
    /\ Cited
    /\ Len(citations) = 1
    /\ \E n \in MarkerNumbers(response_text) : n \notin 1..Len(expanded_ids)
    /\ \E n \in MarkerNumbers(response_text) :
            n \in 1..Len(expanded_ids) /\ citations[1].nodeId = expanded_ids[n]

\* C17: each distinct number yields at most one citation, however often and
\* in whatever spelling its marker occurs: no two citations of a turn carry
\* the same node id.
C17_OneCitationPerNumber ==
    Cited =>
        \A k, l \in 1..Len(citations) :
            k # l => citations[k].nodeId # citations[l].nodeId

\* C18: a marker whose number refers to a node without resolvable content (not
\* in the lookup, without data, or with an empty label: the nodes that context
\* assembly renders no block for) yields no citation.
C18_NoCitationWithoutContent ==
    Cited =>
        \A k \in 1..Len(citations) : Renderable(node_lookup, citations[k].nodeId)

\* ------------------------------------------------ claims: the chat store

\* C20: a turn that names a session id which does not exist ends with the
\* not-found failure of its path (blocking: the 404 response; streaming: the
\* not-found event as the only event), which is none of the generic backend
\* failures, and has created no session and appended no message.
C20_MissingSessionFailsNotFound ==
    \A w \in Workers :
        (cpc[w] = "finished" /\ named_missing[w]) =>
            /\ IF path[w] = "chat"
               THEN /\ response[w] = Some(NotFoundResponse)
                    /\ NotFoundResponse \notin {FailureResponse(e) : e \in BackendFailures}
               ELSE /\ events[w] = <<NotFoundEvent>>
                    /\ NotFoundEvent \notin {FailureEvent(e) : e \in BackendFailures}
            /\ ~created[w]
            /\ appended[w] = 0

\* The messages of a session in the order they were created: the order of
\* the table. The last n of a list.
CreationOrder(rows, sid) == SelectSeq(rows, LAMBDA msg : msg.session_id = sid)
LastN(s, n) == [k \in 1..Min(n, Len(s)) |-> s[Len(s) - Min(n, Len(s)) + k]]

\* C21: when a turn has read the history of its session, the messages it
\* hands to the model are the system message, then the min(6, count) most
\* recent messages of the session in the order they were created, then the
\* query of this turn.
C21_HistoryIsMostRecentAscending ==
    [][\A w \in Workers :
        (cpc[w] = "session" /\ cpc'[w] = "llm") =>
            messages'[w] =
                LlmMessages(LastN(CreationOrder(chat_messages, chat_session'[w][1]), HistoryLimit),
                            turn[w])]_vars

\* The rows of chat_message written by the request a worker is handling.
TurnRows(w) == {k \in 1..Len(chat_messages) : chat_messages[k].content = turn[w]}
UserOnly(w) ==
    /\ \E k \in TurnRows(w) : chat_messages[k].role = "user"
    /\ \A k \in TurnRows(w) : chat_messages[k].role # "assistant"

\* C22 as stated, read for each cancelled turn: a streamed turn whose
\* consumer stopped pulling before the stream had finished has left its user
\* message in the chat store without the assistant message.
C22_CancelLeavesUserMessageAlone ==
    \A w \in Workers : cpc[w] = "cancelled" => UserOnly(w)

\* C22, amended: when the consumer of a streamed turn stops pulling, the
\* step changes neither table (a session the turn created stays), and from
\* then on the chat store holds no message of that turn, neither the user
\* message nor the assistant message.
C22_CancelKeepsWritesAndLeavesNoMessage ==
    [][\A w \in Workers :
        cpc'[w] = "cancelled" =>
            /\ TurnRows(w)' = {}
            /\ appended'[w] = 0
            /\ cpc[w] = "llm" => (sessions' = sessions /\ chat_messages' = chat_messages)]_vars

\* A stream was cancelled after a token, in a turn that had created a
\* session; the session is in the table and other messages are in the store.
C22_Witness ==
    \E w \in Workers :
        /\ cpc[w] = "cancelled"
        /\ created[w]
        /\ Len(events[w]) >= 1
        /\ chat_session[w][1] \in DOMAIN sessions
        /\ chat_messages # <<>>

\* The events of a stream: tokens, then nothing or one final event.
FinalTypes == {"done", "error"}
TokensThenFinal(es) ==
    \A k \in 1..Len(es) :
        IF k < Len(es) THEN es[k].type = "token" ELSE es[k].type \in {"token"} \cup FinalTypes
Ended(es) == es # <<>> /\ es[Len(es)].type \in FinalTypes

\* C23: the events of a streamed turn are token events followed, when the
\* turn has run to its end, by exactly one final event of type done or
\* error, after which the turn emits nothing; done names the session of the
\* turn and is emitted by a step that leaves the user message and the
\* assistant message of the turn in the chat store.
C23_TokensThenOneFinalEvent ==
    [][\A w \in Workers :
        path'[w] = "chat_stream" =>
            /\ TokensThenFinal(events'[w])
            /\ cpc'[w] = "finished" => Ended(events'[w])
            /\ (Ended(events[w]) /\ turn'[w] = turn[w]) => events'[w] = events[w]
            /\ (Ended(events'[w]) /\ ~Ended(events[w])
                    /\ events'[w][Len(events'[w])].type = "done") =>
                    /\ events'[w][Len(events'[w])] = Done(chat_session[w][1])
                    /\ \E k \in TurnRows(w)' :
                         /\ k + 1 \in TurnRows(w)'
                         /\ chat_messages'[k].role = "user"
                         /\ chat_messages'[k + 1].role = "assistant"
                         /\ chat_messages'[k].session_id = chat_session[w][1]
                         /\ chat_messages'[k + 1].session_id = chat_session[w][1]]_vars

\* A stream has sent a token and then done, and its two messages are stored.
C23_Witness ==
    \E w \in Workers :
        /\ path[w] = "chat_stream"
        /\ cpc[w] = "finished"
        /\ Len(events[w]) = 2
        /\ events[w][1].type = "token"
        /\ events[w][2].type = "done"
        /\ Cardinality(TurnRows(w)) = 2

\* C29: every row of chat_message names a session that is in the table
\* chat_session.
C29_EveryMessageHasItsSession ==
    \A k \in 1..Len(chat_messages) : chat_messages[k].session_id \in DOMAIN sessions

\* C30: the project recorded on a session tells the project of the turns
\* that wrote its messages: two messages of one session were written by turns
\* of one project, which is the project of the request that created the
\* session, and two sessions created for different projects are recorded
\* under different projects.
C30_SessionProjectIdentifiesTheTurn ==
    /\ \A k \in 1..Len(chat_messages), j \in 1..Len(chat_messages) :
            chat_messages[k].session_id = chat_messages[j].session_id =>
                chat_messages[k].project = chat_messages[j].project
    /\ \A k \in 1..Len(chat_messages) :
            chat_messages[k].session_id \in DOMAIN sessions =>
                sessions[chat_messages[k].session_id].creator = chat_messages[k].project
    /\ \A s \in DOMAIN sessions, t \in DOMAIN sessions :
            sessions[s].creator # sessions[t].creator =>
                sessions[s].project_id # sessions[t].project_id

\* ------------------------------------------- claims: projects and callers

\* C24: when a call of sync for a project has returned, every entry that
\* belonged to another project when the call started is in the index as it
\* was: same project, same content, same fingerprint.
C24_OtherProjectsUntouched ==
    \A w \in Workers :
        pc[w] = "done" =>
            \A i \in DOMAIN pre[w] :
                pre[w][i].metadata.project_id # project_id[w] =>
                    i \in DOMAIN index /\ index[i] = pre[w][i]

\* What one call of sync(p, N) makes of a collection when nothing else
\* touches it: the loop over the nodes with the fingerprints read at the
\* start, then the delete.
RECURSIVE Upserted(_, _, _, _, _)
Upserted(coll, hashes, p, N, k) ==
    IF k > Len(N) THEN coll
    ELSE Upserted(IF Considered(N[k]) /\ Changed(hashes, N[k])
                  THEN upsert_node(coll, N[k].id, N[k].content, p)
                  ELSE coll,
                  hashes, p, N, k + 1)
CurrentIds(N) == {N[k].id : k \in {j \in 1..Len(N) : Considered(N[j])}}
SyncOutcome(coll, p, N) ==
    CollectionDelete(Upserted(coll, ExistingHashes(coll, CollectionGet(coll, p)), p, N, 1),
                     RemovedIds(CollectionGet(coll, p), CurrentIds(N)))

\* SyncOutcome is what the steps of a call that ran alone have made.
SyncOutcomeIsTheCall ==
    \A w \in Workers :
        RanAlone(w) => index = SyncOutcome(pre[w], project_id[w], nodes[w])

\* Both calls have returned.
BothDone == \A w \in Workers : pc[w] = "done"

\* C25: when two sync calls for one project have both returned, however
\* their steps interleaved, the index is what the two calls make of the
\* collection they began with when one runs after the other, in one of the
\* two orders.
C25_RaceEqualsSomeSerialOrder ==
    BothDone =>
        \/ index = SyncOutcome(SyncOutcome(origin, "P", nodes["w1"]), "P", nodes["w2"])
        \/ index = SyncOutcome(SyncOutcome(origin, "P", nodes["w2"]), "P", nodes["w1"])

\* C25, amended: when two sync calls for one project have both returned,
\* however their steps interleaved, every entry the project holds has the id
\* of an indexable node of one of the two lists and carries the content and
\* the fingerprint which that list gives the id.
C25_RaceLeavesOnlyListedEntries ==
    BothDone =>
        \A i \in CollectionGet(index, "P") :
            \E w \in Workers :
                /\ i \in IndexableIds(nodes[w])
                /\ \E k \in IndexablePositions(nodes[w]) :
                        /\ nodes[w][k].id = i
                        /\ index[i].document = nodes[w][k].content
                        /\ HasFingerprint(index[i], ContentHash(nodes[w][k].content))

\* Two calls that overlapped have both returned and left a state that is the
\* outcome of neither order.
C25_Witness ==
    /\ BothDone
    /\ raced
    /\ index # SyncOutcome(SyncOutcome(origin, "P", nodes["w1"]), "P", nodes["w2"])
    /\ index # SyncOutcome(SyncOutcome(origin, "P", nodes["w2"]), "P", nodes["w1"])

\* ------------------------------------------- claims: seeds and graph ids

\* C26: when the expansion of a seed list without repetitions has returned
\* and the returned list holds an id that the graph added, the returned list
\* holds every seed.
C26_GraphNeverDisplacesASeed ==
    (Returned /\ NoDuplicates(node_ids) /\ Range(result) \cap Range(discovered) # {}) =>
        Range(node_ids) \subseteq Range(result)

\* ------------------------------------------ claims: labels and citations

\* The blocks of the context text carry the positions of their nodes: block
\* k is labelled with a position of the final list, later blocks with later
\* positions, and shows the label of the node at that position.
LabelsArePositions ==
    tpc \in {"assembled", "complete", "cited"} =>
        /\ \A k \in 1..Len(context_parts) :
                /\ context_parts[k].number \in 1..Len(expanded_ids)
                /\ Renderable(node_lookup, expanded_ids[context_parts[k].number])
                /\ context_parts[k].label =
                        DataLabel(node_lookup[expanded_ids[context_parts[k].number]].data)
        /\ \A k, j \in 1..Len(context_parts) :
                k < j => context_parts[k].number < context_parts[j].number
        /\ \A n \in 1..Len(expanded_ids) :
                Renderable(node_lookup, expanded_ids[n]) =>
                    \E k \in 1..Len(context_parts) : context_parts[k].number = n

\* C27: the label [n] of a block is the position of its node in the final
\* list, also after ids that were skipped, and every citation is that of a
\* marker [n] of the response and names the node whose block is labelled
\* [n] in the context text of the turn.
C27_CitationNamesTheBlockOfItsNumber ==
    /\ LabelsArePositions
    /\ Cited =>
            \A c \in 1..Len(citations) :
                \E n \in MarkerNumbers(response_text), k \in 1..Len(context_parts) :
                    /\ context_parts[k].number = n
                    /\ n \in 1..Len(expanded_ids)
                    /\ citations[c].nodeId = expanded_ids[n]

\* A block is labelled with a number greater than the number of blocks
\* before and including it: an earlier id was skipped.
SkippedBeforeABlock ==
    /\ Cited
    /\ \E k \in 1..Len(context_parts) : context_parts[k].number > k

\* ----------------------------------------------------- claims: retrieval

\* The ids of the nodes the request carries.
SuppliedIds == DOMAIN node_lookup

\* C28: after the merge, every id tagged rag is the id of a node of the
\* node list the request carries, whether that list holds nodes or not.
C28_RagIdsAreSuppliedIds ==
    MergeDone => TaggedIn(retrieved_ids, node_sources, "rag") \subseteq SuppliedIds

\* The same for the requests that carry a node.
RagIdsAreSuppliedIdsIfAny ==
    (MergeDone /\ SuppliedIds # {}) =>
        TaggedIn(retrieved_ids, node_sources, "rag") \subseteq SuppliedIds

\* A request with nodes has found one of them by the search.
RagIdFound ==
    MergeDone /\ SuppliedIds # {} /\ TaggedIn(retrieved_ids, node_sources, "rag") # {}

====
